---- MODULE Spec2Model ----
(***************************************************************************)
(* Model of zoo/senet/se_resnext_c.py: the SEResNeXt class, its class-level *)
(* groups table and the construction of a network by SEResNeXt.__init__.    *)
(* A tensor is modelled by the layer graph that produced it: the sequence   *)
(* of components (input, stem, groups, classifier) applied so far.  Python  *)
(* lists are objects: the local name `groups` of __init__ and learner is a  *)
(* reference, either to the class table entry or to the caller's list.      *)
(***************************************************************************)
EXTENDS Integers, Sequences, FiniteSets, TLC

VARIABLES
    SEResNeXt_groups,  \* class attribute SEResNeXt.groups: depth -> list of group dicts
    n_layers,          \* argument of the current call of __init__ (an int or the caller's list)
    groups,            \* local `groups`: which list object it is bound to
    groups_at_bind,    \* contents of that list when `groups` was bound (history)
    inputs,            \* local `inputs` of __init__
    x,                 \* local `x` of __init__ / learner
    it,                \* position of the iterator of `for group in groups`
    outputs,           \* local `outputs` of __init__
    model,             \* self._model
    exc,               \* exception that ended the call, if any
    pc                 \* position in __init__

vars == <<SEResNeXt_groups, n_layers, groups, groups_at_bind, inputs, x, it,
          outputs, model, exc, pc>>

----------------------------------------------------------------------------
(* Bounds of the caller-supplied groups lists. *)
MaxUserLen == 3
MaxUserBlocks == 2

(* Default arguments of __init__. *)
cardinality == 32
ratio == 16
n_classes == 1000

Predefined == {50, 101, 152}

(* Integer depths a caller may pass: the predefined ones and some others. *)
IntArgs == Predefined \cup {18, 34}

GroupDict(fin, fout, nb) == [filters_in |-> fin, filters_out |-> fout, n_blocks |-> nb]

(* The literal of the class attribute `groups`. *)
GroupsLiteral ==
    [n \in Predefined |->
       IF n = 50 THEN << GroupDict(128, 256, 3), GroupDict(256, 512, 4),
                         GroupDict(512, 1024, 6), GroupDict(1024, 2048, 3) >>
       ELSE IF n = 101 THEN << GroupDict(128, 256, 3), GroupDict(256, 512, 4),
                               GroupDict(512, 1024, 23), GroupDict(1024, 2048, 3) >>
       ELSE << GroupDict(128, 256, 3), GroupDict(256, 512, 8),
               GroupDict(512, 1024, 36), GroupDict(1024, 2048, 3) >>]

(* Group dicts and lists a caller may supply as n_layers. *)
UserDicts == { GroupDict(64, 128, nb) : nb \in 0..MaxUserBlocks }

RECURSIVE ListsUpTo(_)
ListsUpTo(k) ==
    IF k = 0 THEN { <<>> }
    ELSE LET shorter == ListsUpTo(k - 1)
         IN  shorter \cup { <<d>> \o l : d \in UserDicts, l \in { s \in shorter : Len(s) = k - 1 } }

UserLists == ListsUpTo(MaxUserLen)

IntArg(n) == [isInt |-> TRUE, val |-> n, list |-> <<>>]
ListArg(l) == [isInt |-> FALSE, val |-> 0, list |-> l]

None == <<>>

----------------------------------------------------------------------------
(* Layers and blocks *)

Layer(op, filters, kernel, strides, split) ==
    [op |-> op, filters |-> filters, kernel |-> kernel, strides |-> strides, split |-> split]

Block(kind, strides, main, shortcut, se) ==
    [kind |-> kind, strides |-> strides, main |-> main, shortcut |-> shortcut, se |-> se]

Component(kind, strides, meta, blocks) ==
    [kind |-> kind, strides |-> strides, filters_in |-> meta.filters_in,
     filters_out |-> meta.filters_out, n_blocks |-> meta.n_blocks, blocks |-> blocks]

NoMeta == GroupDict(0, 0, 0)

Input == << Component("input", <<1, 1>>, NoMeta, <<>>) >>

stem(t) ==
    Append(t, Component("stem", <<2, 2>>, NoMeta,
        << Block("stem", <<2, 2>>, << Layer("Conv2D", 64, 7, <<2, 2>>, 1) >>, <<>>, <<>>) >>))

squeeze_excite_block(filters) ==
    << Layer("Dense", filters \div ratio, 0, <<1, 1>>, 1),
       Layer("Dense", filters, 0, <<1, 1>>, 1) >>

identity_block(meta) ==
    Block("identity", <<1, 1>>,
          << Layer("Conv2D", meta.filters_in, 1, <<1, 1>>, 1),
             Layer("Conv2D", (meta.filters_in \div cardinality) * cardinality, 3, <<1, 1>>, cardinality),
             Layer("Conv2D", meta.filters_out, 1, <<1, 1>>, 1) >>,
          <<>>,
          squeeze_excite_block(meta.filters_out))

projection_block(strides, meta) ==
    Block("projection", strides,
          << Layer("Conv2D", meta.filters_in, 1, <<1, 1>>, 1),
             Layer("Conv2D", (meta.filters_in \div cardinality) * cardinality, 3, strides, cardinality),
             Layer("Conv2D", meta.filters_out, 1, <<1, 1>>, 1) >>,
          << Layer("Conv2D", meta.filters_out, 1, strides, 1) >>,
          squeeze_excite_block(meta.filters_out))

(* range(n_blocks - 1) is empty when n_blocks <= 1 *)
RangeLen(n) == IF n > 0 THEN n ELSE 0

(* Faulty variant of group: range(n_blocks) instead of range(n_blocks-1) *)
group_off_by_one(t, strides, meta) ==
    Append(t, Component("group", strides, meta,
        << projection_block(strides, meta) >> \o
        [i \in 1..RangeLen(meta.n_blocks) |-> identity_block(meta)]))

(* group, lines 116-130: a projection block, then n_blocks-1 identity blocks *)
group(t, strides, meta) ==
    Append(t, Component("group", strides, meta,
        << projection_block(strides, meta) >> \o
        [i \in 1..RangeLen(meta.n_blocks - 1) |-> identity_block(meta)]))

DefaultStrides == <<2, 2>>

classifier(t) ==
    Append(t, Component("classifier", <<1, 1>>, NoMeta,
        << Block("classifier", <<1, 1>>, << Layer("Dense", n_classes, 0, <<1, 1>>, 1) >>, <<>>, <<>>) >>))

Model(i, o) == << i, o >>

----------------------------------------------------------------------------
(* The list object the local `groups` refers to *)

Ref(obj, key) == [obj |-> obj, key |-> key]
Unbound == Ref("unbound", 0)

Deref == IF groups.obj = "SEResNeXt.groups" THEN SEResNeXt_groups[groups.key]
         ELSE n_layers.list

(* groups.pop(0): removes the first element of the list object itself *)
Pop0 ==
    IF groups.obj = "SEResNeXt.groups"
    THEN /\ SEResNeXt_groups' = [SEResNeXt_groups EXCEPT ![groups.key] = Tail(@)]
         /\ UNCHANGED n_layers
    ELSE /\ n_layers' = [n_layers EXCEPT !.list = Tail(@)]
         /\ UNCHANGED SEResNeXt_groups

----------------------------------------------------------------------------
Init ==
    /\ SEResNeXt_groups = GroupsLiteral
    /\ n_layers = IntArg(0)
    /\ groups = Unbound
    /\ groups_at_bind = <<>>
    /\ inputs = None
    /\ x = None
    /\ it = 0
    /\ outputs = None
    /\ model = None
    /\ exc = "none"
    /\ pc = "idle"

(* A call SEResNeXt(arg) starts when no other call is running; the new      *)
(* instance has the class default _model = None and fresh locals.           *)
Callable == pc \in {"idle", "done", "raised"}

FreshLocals ==
    /\ inputs' = None
    /\ x' = None
    /\ it' = 0
    /\ outputs' = None
    /\ model' = None

(* Faulty variant of the depth test: 152 missing from the list *)
ValidDepth_without152(n) == n \in {50, 101}

ValidDepth(n) == n \in {50, 101, 152}

(* __init__, lines 58-60: an int that is not a predefined depth *)
InitInvalid(n) ==
    /\ Callable
    /\ ~ValidDepth(n)
    /\ n_layers' = IntArg(n)
    /\ FreshLocals
    /\ groups' = Unbound
    /\ groups_at_bind' = <<>>
    /\ exc' = "Exception"
    /\ pc' = "raised"
    /\ UNCHANGED SEResNeXt_groups

(* __init__, lines 58-61: a predefined depth *)
InitPredefined(n) ==
    /\ Callable
    /\ ValidDepth(n)
    /\ n_layers' = IntArg(n)
    /\ FreshLocals
    /\ groups' = Ref("SEResNeXt.groups", n)
    /\ groups_at_bind' = SEResNeXt_groups[n]
    /\ exc' = "none"
    /\ pc' = "bound"
    /\ UNCHANGED SEResNeXt_groups

(* __init__, lines 63-64: a caller-supplied list of group dicts *)
InitUserDefined(l) ==
    /\ Callable
    /\ n_layers' = ListArg(l)
    /\ FreshLocals
    /\ groups' = Ref("n_layers", 0)
    /\ groups_at_bind' = l
    /\ exc' = "none"
    /\ pc' = "bound"
    /\ UNCHANGED SEResNeXt_groups

(* line 67 *)
MakeInput ==
    /\ pc = "bound"
    /\ inputs' = Input
    /\ pc' = "input"
    /\ UNCHANGED <<SEResNeXt_groups, n_layers, groups, groups_at_bind, x, it, outputs, model, exc>>

(* line 70 *)
Stem ==
    /\ pc = "input"
    /\ x' = stem(inputs)
    /\ pc' = "stem"
    /\ UNCHANGED <<SEResNeXt_groups, n_layers, groups, groups_at_bind, inputs, it, outputs, model, exc>>

(* Faulty variant of the first group: strides left at the default (2, 2) *)
LearnerFirst_strided ==
    /\ pc = "stem"
    /\ IF Deref = <<>>
       THEN /\ exc' = "IndexError"
            /\ pc' = "raised"
            /\ UNCHANGED <<SEResNeXt_groups, n_layers, x>>
       ELSE /\ Pop0
            /\ x' = group(x, DefaultStrides, Head(Deref))
            /\ exc' = exc
            /\ pc' = "learner"
    /\ it' = 0
    /\ UNCHANGED <<groups, groups_at_bind, inputs, outputs, model>>

(* learner, lines 105-108: the first group is popped off the list; pop on   *)
(* an empty list raises IndexError                                          *)
LearnerFirst ==
    /\ pc = "stem"
    /\ IF Deref = <<>>
       THEN /\ exc' = "IndexError"
            /\ pc' = "raised"
            /\ UNCHANGED <<SEResNeXt_groups, n_layers, x>>
       ELSE /\ Pop0
            /\ x' = group(x, <<1, 1>>, Head(Deref))
            /\ exc' = exc
            /\ pc' = "learner"
    /\ it' = 0
    /\ UNCHANGED <<groups, groups_at_bind, inputs, outputs, model>>

(* learner, lines 111-112: one iteration of `for group in groups` *)
LearnerNext ==
    /\ pc = "learner"
    /\ it < Len(Deref)
    /\ x' = group(x, DefaultStrides, Deref[it + 1])
    /\ it' = it + 1
    /\ UNCHANGED <<SEResNeXt_groups, n_layers, groups, groups_at_bind, inputs, outputs, model, exc, pc>>

(* learner, line 113: the iterator is exhausted *)
LearnerReturn ==
    /\ pc = "learner"
    /\ it >= Len(Deref)
    /\ pc' = "learned"
    /\ UNCHANGED <<SEResNeXt_groups, n_layers, groups, groups_at_bind, inputs, x, it, outputs, model, exc>>

(* line 76 *)
Classifier ==
    /\ pc = "learned"
    /\ outputs' = classifier(x)
    /\ pc' = "classified"
    /\ UNCHANGED <<SEResNeXt_groups, n_layers, groups, groups_at_bind, inputs, x, it, model, exc>>

(* Faulty variant of line 79: the model built on x instead of outputs *)
Instantiate_from_x ==
    /\ pc = "classified"
    /\ model' = Model(inputs, x)
    /\ pc' = "done"
    /\ UNCHANGED <<SEResNeXt_groups, n_layers, groups, groups_at_bind, inputs, x, it, outputs, exc>>

(* line 79 *)
Instantiate ==
    /\ pc = "classified"
    /\ model' = Model(inputs, outputs)
    /\ pc' = "done"
    /\ UNCHANGED <<SEResNeXt_groups, n_layers, groups, groups_at_bind, inputs, x, it, outputs, exc>>

Next ==
    \/ \E n \in IntArgs : InitInvalid(n)
    \/ \E n \in IntArgs : InitPredefined(n)
    \/ \E l \in UserLists : InitUserDefined(l)
    \/ MakeInput
    \/ Stem
    \/ LearnerFirst
    \/ LearnerNext
    \/ LearnerReturn
    \/ Classifier
    \/ Instantiate

Spec == Init /\ [][Next]_vars

----------------------------------------------------------------------------
(* Measures on a layer graph, used by the properties below *)

RECURSIVE SumBlocks(_)
SumBlocks(l) == IF l = <<>> THEN 0 ELSE Head(l).n_blocks + SumBlocks(Tail(l))

RECURSIVE MainLayers(_)
MainLayers(blocks) == IF blocks = <<>> THEN 0 ELSE Len(Head(blocks).main) + MainLayers(Tail(blocks))

(* Weighted layers on the main path: the stem convolution, the three        *)
(* convolution stages of every block and the classifier dense layer.        *)
RECURSIVE WeightedLayers(_)
WeightedLayers(t) == IF t = <<>> THEN 0 ELSE MainLayers(Head(t).blocks) + WeightedLayers(Tail(t))

Kinds(t) == [i \in 1..Len(t) |-> t[i].kind]

Count(t, kind) == Cardinality({i \in 1..Len(t) : t[i].kind = kind})

GroupsOf(t) == SelectSeq(t, LAMBDA c : c.kind = "group")

BuiltFrom(c, meta) ==
    /\ c.kind = "group"
    /\ c.filters_in = meta.filters_in
    /\ c.filters_out = meta.filters_out
    /\ c.n_blocks = meta.n_blocks

Strided(c) == c.strides = <<2, 2>> /\ c.blocks[1].strides = <<2, 2>>

NotStrided(c) == c.strides = <<1, 1>> /\ c.blocks[1].strides = <<1, 1>>

----------------------------------------------------------------------------
(* C1: for each predefined depth n in {50, 101, 152} the groups table entry *)
(* for n, as the class defines it, satisfies 2 + 3 * sum(n_blocks) = n, and *)
(* the network a construction builds from that entry has exactly n weighted *)
(* layers: 1 stem convolution, 3 convolution stages per block over the      *)
(* n_blocks blocks of each of its four groups, and 1 classifier dense layer.*)
C1_TableDescribesDepth ==
    /\ \A n \in Predefined :
          /\ Len(GroupsLiteral[n]) = 4
          /\ 2 + 3 * SumBlocks(GroupsLiteral[n]) = n
    /\ \A n \in Predefined :
          (pc = "done" /\ n_layers = IntArg(n) /\ groups_at_bind = GroupsLiteral[n])
             => /\ WeightedLayers(model[2]) = n
                /\ WeightedLayers(model[2]) = 2 + 3 * SumBlocks(GroupsLiteral[n])
                /\ \A i \in 1..4 :
                      /\ Len(GroupsOf(model[2])[i].blocks) = GroupsLiteral[n][i].n_blocks
                      /\ \A b \in 1..Len(GroupsOf(model[2])[i].blocks) :
                            Len(GroupsOf(model[2])[i].blocks[b].main) = 3

C1_Witness ==
    /\ pc = "done"
    /\ n_layers = IntArg(152)
    /\ groups_at_bind = GroupsLiteral[152]
    /\ WeightedLayers(model[2]) = 152

(* C2: a call with an integer n_layers that is not 50, 101 or 152 raises    *)
(* the exception before any layer is created and leaves the model None; a   *)
(* call with n_layers in {50, 101, 152} does not raise this exception and   *)
(* binds groups to the table entry of exactly that depth.                   *)
C2_DepthValidation ==
    /\ (pc # "idle" /\ n_layers.isInt /\ n_layers.val \notin Predefined)
          => /\ pc = "raised"
             /\ exc = "Exception"
             /\ inputs = None /\ x = None /\ outputs = None
             /\ model = None
    /\ exc = "Exception" => (n_layers.isInt /\ n_layers.val \notin Predefined)
    /\ (pc # "idle" /\ n_layers.isInt /\ n_layers.val \in Predefined)
          => /\ exc # "Exception"
             /\ groups = Ref("SEResNeXt.groups", n_layers.val)

C2_Witness ==
    /\ pc = "raised"
    /\ exc = "Exception"
    /\ n_layers = IntArg(34)
    /\ model = None
    /\ inputs = None

(* C3: the network is assembled in the order input, stem, learner groups in *)
(* the order of the groups list, classifier: the stem is applied exactly    *)
(* once and before any group, the classifier exactly once and after the     *)
(* last group, and the model is set only after the classifier output exists.*)
C3_AssemblyOrder ==
    /\ x # None =>
          /\ Len(x) >= 2
          /\ x[1].kind = "input"
          /\ x[2].kind = "stem"
          /\ \A i \in 3..Len(x) : x[i].kind = "group"
    /\ outputs # None =>
          /\ pc \in {"classified", "done"}
          /\ outputs = classifier(x)
    /\ model # None =>
          /\ pc = "done"
          /\ outputs # None
          /\ model = Model(inputs, outputs)
    /\ pc = "done" =>
          /\ model # None
          /\ Len(model[2]) = Len(groups_at_bind) + 3
          /\ Kinds(model[2]) = <<"input", "stem">> \o [i \in 1..Len(groups_at_bind) |-> "group"]
                                  \o <<"classifier">>
          /\ \A i \in 1..Len(groups_at_bind) : BuiltFrom(model[2][i + 2], groups_at_bind[i])
          /\ Count(model[2], "stem") = 1
          /\ Count(model[2], "classifier") = 1

C3_Witness ==
    /\ pc = "done"
    /\ model # None
    /\ Len(groups_at_bind) = 3
    /\ \E i, j \in 1..3 : groups_at_bind[i] # groups_at_bind[j]
    /\ Kinds(model[2]) = <<"input", "stem", "group", "group", "group", "classifier">>

(* C4: construction does not modify the groups list it reads: the class     *)
(* table SEResNeXt.groups always holds its original entries in the original *)
(* order, a later construction with the same depth binds the same four      *)
(* groups, and a caller-supplied list is unchanged after construction.      *)
C4_GroupsListUnchanged ==
    /\ SEResNeXt_groups = GroupsLiteral
    /\ (pc # "idle" /\ n_layers.isInt /\ n_layers.val \in Predefined)
          => groups_at_bind = GroupsLiteral[n_layers.val]
    /\ (pc = "done" /\ ~n_layers.isInt) => n_layers.list = groups_at_bind
    /\ exc # "IndexError" \/ ~n_layers.isInt

(* C5: the learner builds the first entry of the groups list with strides   *)
(* (1, 1) and every remaining entry with strides (2, 2); every entry is     *)
(* built as exactly one group, in list order, so a list of k entries yields *)
(* k groups of which exactly k - 1 are strided.  (The learner raises only   *)
(* when the list has no first entry.)                                       *)
C5_LearnerStrides ==
    /\ pc = "learner" =>
          /\ Len(GroupsOf(x)) = 1 + it
          /\ it <= Len(groups_at_bind) - 1
    /\ pc \in {"learner", "learned", "classified", "done"} =>
          /\ Len(groups_at_bind) >= 1
          /\ NotStrided(GroupsOf(x)[1])
          /\ \A i \in 2..Len(GroupsOf(x)) : Strided(GroupsOf(x)[i])
          /\ \A i \in 1..Len(GroupsOf(x)) : BuiltFrom(GroupsOf(x)[i], groups_at_bind[i])
    /\ pc \in {"learned", "classified", "done"} =>
          /\ Len(GroupsOf(x)) = Len(groups_at_bind)
          /\ Cardinality({i \in 1..Len(GroupsOf(x)) : Strided(GroupsOf(x)[i])})
                = Len(groups_at_bind) - 1
    /\ exc = "IndexError" => (Len(groups_at_bind) = 0 /\ GroupsOf(x) = <<>>)

C5_Witness ==
    /\ pc = "learned"
    /\ Len(groups_at_bind) = 3
    /\ Len(GroupsOf(x)) = 3
    /\ NotStrided(GroupsOf(x)[1])
    /\ Strided(GroupsOf(x)[2])
    /\ Strided(GroupsOf(x)[3])

====
